---- MODULE Spec2Model ----
(***************************************************************************)
(* Model of run_local_blast_skeleton.py: the (PSI-)BLAST harness.          *)
(*                                                                         *)
(* Strings are sequences of one-character strings, so that endswith,       *)
(* slicing, split and concatenation are computed as Python computes them.  *)
(* The script is Python 2 (subprocess output is a str, print statement     *)
(* form, map returning a list).  Line 126/127 of the file holds a broken   *)
(* token (math.log1 / 0); it is read as math.log10, which is what the      *)
(* docstring describes.                                                    *)
(***************************************************************************)
EXTENDS Integers, Sequences, FiniteSets, TLC

VARIABLES
    pc,                   \* position of main: loop, parse, plot, done, error, unit
    idfile,               \* the lines of the identifier file (input)
    evalue,               \* the evalue argument of main (input)
    psiblast,             \* the psiblast flag (input)
    idx,                  \* number of lines of the identifier file consumed
    uniprot_ids,          \* main's list uniprot_ids
    blast_dict,           \* main's dictionary blast_dict
    lines,                \* blast_result.split("\n") of the last blast call
    lineNo,               \* next of these lines the parse loop handles
    stdout,               \* what the script printed
    err,                  \* the exception that ended the run, or "none"
    out,                  \* the rows written to the output file
    out_closed,           \* the output file has been written and closed
    png_saved,            \* pylab.savefig has run
    lower_than_threshold, \* the local of plot_evalue_distribution
    calls,                \* history: the query argument of every blast call
    cmds,                 \* history: every command handed to Popen
    seen,                 \* history: every line the parse loop has handled
    u_args,               \* arguments of a direct call of blast
    u_ret                 \* what that call returned

vars == <<pc, idfile, evalue, psiblast, idx, uniprot_ids, blast_dict,
          lines, lineNo, stdout, err, out, out_closed, png_saved,
          lower_than_threshold, calls, cmds, seen, u_args, u_ret>>

\* Largest number of lines of the identifier file.
MaxIds == 2

NL == "\n"
TAB == "\t"
SP == " "
BAR == "|"

-----------------------------------------------------------------------------
(* Python string primitives *)

\* str.endswith
EndsWith(s, suf) ==
    /\ Len(s) >= Len(suf)
    /\ SubSeq(s, Len(s) - Len(suf) + 1, Len(s)) = suf

\* s[0:-1]
DropLast(s) == SubSeq(s, 1, Len(s) - 1)

\* characters str.split() treats as separators, among those of the model
Whitespace == {SP, TAB, NL}

Contains(s, c) == \E i \in 1..Len(s) : s[i] = c

\* str.index(c), counted from 1, for a string that holds c
RECURSIVE IndexFrom(_, _, _)
IndexFrom(s, c, i) == IF s[i] = c THEN i ELSE IndexFrom(s, c, i + 1)

FirstIndex(s, c) == IndexFrom(s, c, 1)

\* str.split(c) for a one-character separator: empty fields are kept
RECURSIVE SplitOn(_, _)
SplitOn(s, c) ==
    IF ~Contains(s, c) THEN <<s>>
    ELSE LET i == FirstIndex(s, c)
         IN  <<SubSeq(s, 1, i - 1)>> \o SplitOn(SubSeq(s, i + 1, Len(s)), c)

\* length of the longest prefix of s without whitespace
RECURSIVE TokenLen(_)
TokenLen(s) ==
    IF s = <<>> \/ s[1] \in Whitespace THEN 0 ELSE 1 + TokenLen(Tail(s))

\* str.split() without argument: runs of whitespace separate, no empty fields
RECURSIVE SplitWS(_)
SplitWS(s) ==
    IF s = <<>> THEN <<>>
    ELSE IF s[1] \in Whitespace THEN SplitWS(Tail(s))
    ELSE LET n == TokenLen(s)
         IN  <<SubSeq(s, 1, n)>> \o SplitWS(SubSeq(s, n + 1, Len(s)))

Digits == <<"0", "1", "2", "3", "4", "5", "6", "7", "8", "9">>

IsDigit(c) == \E i \in 1..10 : Digits[i] = c

DigitVal(c) == (CHOOSE i \in 1..10 : Digits[i] = c) - 1

RECURSIVE DecVal(_)
DecVal(s) ==
    IF s = <<>> THEN 0 ELSE DecVal(DropLast(s)) * 10 + DigitVal(s[Len(s)])

RECURSIVE DecStr(_)
DecStr(n) ==
    IF n < 10 THEN <<Digits[n + 1]>>
    ELSE DecStr(n \div 10) \o <<Digits[(n % 10) + 1]>>

\* float(tok), on tokens over the model's characters (letters other than
\* e, i, n, f, a; digits; '|', '!', ':'): a non-empty digit string is its
\* decimal value, anything else raises ValueError.
Float(tok) ==
    IF tok # <<>> /\ \A i \in 1..Len(tok) : IsDigit(tok[i])
    THEN [ok |-> TRUE, val |-> DecVal(tok)]
    ELSE [ok |-> FALSE, val |-> 0]

\* str(x) of a float holding a whole number below 10^12
Str(v) == DecStr(v) \o <<".", "0">>

-----------------------------------------------------------------------------
(* The functions of the script *)

\* The evalue argument: argparse hands over the option's text, or the
\* default, which is the int 10.
EvalueDefault == 10
IntArg(n) == [isStr |-> FALSE, num |-> n, str |-> <<>>]
StrArg(s) == [isStr |-> TRUE, num |-> 0, str |-> s]

\* blast up to the Popen call: the command string, or the TypeError of
\* concatenating a str and a non-str.
blast_strip_all(db, query, query_folder, blast_path, psiblast_, evalue_) ==
    LET RECURSIVE Strip(_)
        Strip(s) == IF s # <<>> /\ s[Len(s)] \in {NL, SP} THEN Strip(DropLast(s)) ELSE s
        q2 == Strip(query)
    IN  IF ~evalue_.isStr THEN [err |-> "TypeError", cmd |-> <<>>]
        ELSE IF ~psiblast_
        THEN [err |-> "none",
              cmd |-> <<"b", "l", "a", "s", "t", "p", " ", "-", "q", "u", "e", "r", "y", "=">> \o query_folder \o q2 \o <<" ", "-", "d", "b", "=">> \o db
                      \o <<" ", "-", "o", "u", "t", "f", "m", "t", "=", "\"", "6", " ", "q", "a", "c", "c", " ", "s", "a", "c", "c", " ", "e", "v", "a", "l", "u", "e", "\"", " ", "-", "e", "v", "a", "l", "u", "e", "=">> \o evalue_.str]
        ELSE [err |-> "none",
              cmd |-> <<"p", "s", "i", "b", "l", "a", "s", "t", " ", "-", "q", "u", "e", "r", "y", "=">> \o query_folder \o q2 \o <<" ", "-", "d", "b", "=">> \o db
                      \o <<" ", "-", "n", "u", "m", "_", "i", "t", "e", "r", "a", "t", "i", "o", "n", "s", "=", "3">>
                      \o <<" ", "-", "o", "u", "t", "f", "m", "t", "=", "\"", "6", " ", "q", "a", "c", "c", " ", "s", "a", "c", "c", " ", "e", "v", "a", "l", "u", "e", "\"", " ", "-", "e", "v", "a", "l", "u", "e", "=">> \o evalue_.str
                      \o <<" ", "-", "c", "o", "m", "p", "_", "b", "a", "s", "e", "d", "_", "s", "t", "a", "t", "s", "=", "0">>]

blast(db, query, query_folder, blast_path, psiblast_, evalue_) ==
    LET q1 == IF EndsWith(query, <<NL>>) THEN DropLast(query) ELSE query
        q2 == IF EndsWith(q1, <<SP>>) THEN DropLast(q1) ELSE q1
    IN  IF ~psiblast_
        THEN IF ~evalue_.isStr THEN [err |-> "TypeError", cmd |-> <<>>]
             ELSE [err |-> "none",
                   cmd |-> <<"b", "l", "a", "s", "t", "p", " ", "-", "q", "u", "e", "r", "y", "=">> \o query_folder \o q2 \o <<" ", "-", "d", "b", "=">> \o db
                           \o <<" ", "-", "o", "u", "t", "f", "m", "t", "=", "\"", "6", " ", "q", "a", "c", "c", " ", "s", "a", "c", "c", " ", "e", "v", "a", "l", "u", "e", "\"", " ", "-", "e", "v", "a", "l", "u", "e", "=">> \o evalue_.str]
        ELSE IF ~evalue_.isStr THEN [err |-> "TypeError", cmd |-> <<>>]
             ELSE [err |-> "none",
                   cmd |-> <<"p", "s", "i", "b", "l", "a", "s", "t", " ", "-", "q", "u", "e", "r", "y", "=">> \o query_folder \o q2 \o <<" ", "-", "d", "b", "=">> \o db
                           \o <<" ", "-", "n", "u", "m", "_", "i", "t", "e", "r", "a", "t", "i", "o", "n", "s", "=", "3">>
                           \o <<" ", "-", "o", "u", "t", "f", "m", "t", "=", "\"", "6", " ", "q", "a", "c", "c", " ", "s", "a", "c", "c", " ", "e", "v", "a", "l", "u", "e", "\"", " ", "-", "e", "v", "a", "l", "u", "e", "=">> \o evalue_.str
                           \o <<" ", "-", "c", "o", "m", "p", "_", "b", "a", "s", "e", "d", "_", "s", "t", "a", "t", "s", "=", "0">>]

WarnPrefix == <<"\t", "C", "o", "u", "l", "d", " ", "n", "o", "t", " ", "p", "a", "r", "s", "e", " ", "(", "p", "s", "i", "-", ")", "b", "l", "a", "s", "t", " ", "r", "e", "s", "p", "o", "n", "s", "e", " ", "l", "i", "n", "e", ":", "\n", "\t">>

Converged == <<"C", "O", "N", "V", "E", "R", "G", "E", "D", "!">>

\* The except IndexError branch: the dictionary is kept, a warning is printed
\* unless the line ends with CONVERGED!.
IndexErrorCaught(line, d) ==
    [err |-> "none", dict |-> d,
     print |-> IF ~EndsWith(line, Converged) THEN <<WarnPrefix \o line>> ELSE <<>>]

\* d[key] = val
DictSet(d, key, val) == [k \in DOMAIN d \cup {key} |-> IF k = key THEN val ELSE d[k]]

\* One pass of the body of the for loop of parse_blast_result.
parse_line_keep_first(line, d) ==
    IF line = <<>> \/ line[1] = "#" \/ line[1] = "["
    THEN [err |-> "none", dict |-> d, print |-> <<>>]
    ELSE LET splitted_line == SplitWS(line)
         IN  IF Len(splitted_line) < 3
                \/ Len(SplitOn(splitted_line[1], BAR)) < 2
                \/ Len(SplitOn(splitted_line[2], BAR)) < 2
             THEN IndexErrorCaught(line, d)
             ELSE LET blast_key == <<SplitOn(splitted_line[1], BAR)[2],
                                     SplitOn(splitted_line[2], BAR)[2]>>
                      f == Float(splitted_line[3])
                  IN  IF ~f.ok THEN [err |-> "ValueError", dict |-> d, print |-> <<>>]
                      ELSE IF blast_key \in DOMAIN d
                      THEN [err |-> "none", dict |-> d, print |-> <<>>]
                      ELSE [err |-> "none", dict |-> DictSet(d, blast_key, f.val),
                            print |-> <<>>]

parse_line_no_handler(line, d) ==
    IF line = <<>> \/ line[1] = "#" \/ line[1] = "["
    THEN [err |-> "none", dict |-> d, print |-> <<>>]
    ELSE LET splitted_line == SplitWS(line)
         IN  IF Len(splitted_line) < 3
                \/ Len(SplitOn(splitted_line[1], BAR)) < 2
                \/ Len(SplitOn(splitted_line[2], BAR)) < 2
             THEN [err |-> "IndexError", dict |-> d, print |-> <<>>]
             ELSE LET f == Float(splitted_line[3])
                  IN  IF ~f.ok THEN [err |-> "ValueError", dict |-> d, print |-> <<>>]
                      ELSE [err |-> "none",
                            dict |-> DictSet(d, <<SplitOn(splitted_line[1], BAR)[2],
                                                  SplitOn(splitted_line[2], BAR)[2]>>, f.val),
                            print |-> <<>>]

parse_line(line, d) ==
    IF line = <<>> \/ line[1] = "#" \/ line[1] = "["
    THEN [err |-> "none", dict |-> d, print |-> <<>>]
    ELSE LET splitted_line == SplitWS(line)
         IN  IF Len(splitted_line) < 1 THEN IndexErrorCaught(line, d)
             ELSE IF Len(SplitOn(splitted_line[1], BAR)) < 2 THEN IndexErrorCaught(line, d)
             ELSE IF Len(splitted_line) < 2 THEN IndexErrorCaught(line, d)
             ELSE IF Len(SplitOn(splitted_line[2], BAR)) < 2 THEN IndexErrorCaught(line, d)
             ELSE IF Len(splitted_line) < 3 THEN IndexErrorCaught(line, d)
             ELSE LET query == SplitOn(splitted_line[1], BAR)[2]
                      subject == SplitOn(splitted_line[2], BAR)[2]
                      e_value == splitted_line[3]
                      blast_key == <<query, subject>>
                      f == Float(e_value)
                  IN  IF ~f.ok THEN [err |-> "ValueError", dict |-> d, print |-> <<>>]
                      ELSE [err |-> "none", dict |-> DictSet(d, blast_key, f.val),
                            print |-> <<>>]

\* itertools.product(ids, ids): the pairs in row-major order
Product(ids) ==
    LET n == Len(ids)
    IN  [k \in 1..(n * n) |-> <<ids[((k - 1) \div n) + 1], ids[((k - 1) % n) + 1]>>]

\* The text of one row.
Row(pair, d) ==
    pair[1] \o <<TAB>> \o pair[2] \o <<TAB>>
    \o (IF pair \in DOMAIN d THEN Str(d[pair]) \o <<NL>> ELSE <<"N", "A", "\n">>)

RowsOf(pairs, d) == [k \in 1..Len(pairs) |-> Row(pairs[k], d)]

Unique(pair) == Len(pair) = Cardinality({pair[i] : i \in 1..Len(pair)})

\* write_output: the rows written, in order.
write_output_combinations(ids, d) ==
    LET n == Len(ids)
        Upper(p) == \E i, j \in 1..n : i < j /\ p = <<ids[i], ids[j]>> /\ ids[i] # ids[j]
    IN  RowsOf(SelectSeq(Product(ids), Upper), d)

write_output_reversed_key(ids, d) ==
    LET R(pair) == pair[1] \o <<TAB>> \o pair[2] \o <<TAB>>
                   \o (IF <<pair[2], pair[1]>> \in DOMAIN d
                       THEN Str(d[<<pair[2], pair[1]>>]) \o <<NL>> ELSE <<"N", "A", "\n">>)
        ps == SelectSeq(Product(ids), Unique)
    IN  [k \in 1..Len(ps) |-> R(ps[k])]

write_output(ids, d) == RowsOf(SelectSeq(Product(ids), Unique), d)

\* The default of plot_evalue_distribution's evalue parameter.
PlotDefaultEvalue == 100000

\* plot_evalue_distribution: the IndexError of nonzero_indices[0] when no
\* value is non-zero; otherwise the figure is saved and the values below the
\* threshold are counted.
plot_evalue_distribution(d, threshold) ==
    LET nonzero == {k \in DOMAIN d : d[k] # 0}
    IN  IF nonzero = {} THEN [err |-> "IndexError", saved |-> FALSE, count |-> 0]
        ELSE [err |-> "none", saved |-> TRUE,
              count |-> Cardinality({k \in DOMAIN d : d[k] < threshold})]

clean_uniprot(uniprot) ==
    LET u1 == IF EndsWith(uniprot, <<NL>>) THEN DropLast(uniprot) ELSE uniprot
    IN  IF EndsWith(u1, <<SP>>) THEN DropLast(u1) ELSE u1

-----------------------------------------------------------------------------
(* Inputs *)

\* Lines of the identifier file that end with a line break.
IdLines == {<<"A", "\n">>, <<"B", "\n">>, <<"A", " ", " ", "\n">>, <<"\n">>}

\* A last line may lack the line break.
LastIdLines == IdLines \cup {<<"B">>}

IdFiles ==
    {f \in UNION {[1..n -> LastIdLines] : n \in 0..MaxIds} :
        \A i \in 1..(Len(f) - 1) : f[i] \in IdLines}

EvalueArgs == {IntArg(EvalueDefault), StrArg(<<"1", "0">>)}

\* What the external tool may print (stdout and stderr together).
BlastOutputs ==
    { <<"s", "p", "|", "A", "|", "x", "\t", "s", "p", "|", "A", "|", "x", "\t", "0", "\n", "s", "p", "|", "A", "|", "x", "\t", "s", "p", "|", "B", "|", "y", "\t", "5", "\n">>,
      <<"s", "p", "|", "B", "|", "y", " ", "s", "p", "|", "A", "|", "x", " ", "5", "\n", "\n", "s", "p", "|", "B", "|", "y", " ", "s", "p", "|", "A", "|", "x", " ", "1", "0", "\n", "\n", "S", "e", "a", "r", "c", "h", " ", "h", "a", "s", " ", "C", "O", "N", "V", "E", "R", "G", "E", "D", "!", "\n">>,
      <<"#", " ", "c", "\n", "[", "w", "\n", "s", "h", ":", " ", "x", ":", " ", "n", "o", "t", " ", "f", "o", "u", "n", "d", "\n", "s", "p", "|", "B", "|", "y", " ", "s", "p", "|", "C", "|", "z", " ", "0", "\n">>,
      <<"s", "p", "|", "A", "|", "x", " ", "s", "p", "|", "B", "|", "y", "\n", " ", "\n", "s", "p", "|", "A", "|", "x", " ", "s", "p", "|", "B", "|", "y", " ", "z", "z", "\n", "s", "p", "|", "B", "|", "y", " ", "s", "p", "|", "B", "|", "y", " ", "5", "\n">> }

QueryFolder == <<"q", "/">>
Db == <<"d", "b">>
OutputFilename == <<"o">>

NoArgs == [db |-> <<>>, query |-> <<>>, query_folder |-> <<>>, blast_path |-> <<>>,
           psiblast |-> FALSE, evalue |-> IntArg(0)]
NoRet == [err |-> "idle", cmd |-> <<>>]

EmptyDict == [k \in {} |-> 0]

-----------------------------------------------------------------------------
(* main *)

Init ==
    /\ pc = "loop"
    /\ idfile \in IdFiles
    /\ evalue \in EvalueArgs
    /\ psiblast \in BOOLEAN
    /\ idx = 0
    /\ uniprot_ids = <<>>
    /\ blast_dict = EmptyDict
    /\ lines = <<>>
    /\ lineNo = 1
    /\ stdout = <<>>
    /\ err = "none"
    /\ out = <<>>
    /\ out_closed = FALSE
    /\ png_saved = FALSE
    /\ lower_than_threshold = 0
    /\ calls = <<>>
    /\ cmds = <<>>
    /\ seen = <<>>
    /\ u_args = NoArgs
    /\ u_ret = NoRet

\* The loop body up to the for loop of parse_blast_result: the next line is
\* cleaned, blast is called with it, once blast has returned the identifier
\* is appended, and the result is split into lines.
BlastQueryDedup ==
    /\ pc = "loop"
    /\ idx < Len(idfile)
    /\ LET line == clean_uniprot(idfile[idx + 1])
           b == blast(Db, line \o <<".", "f", "a", "s", "t", "a">>, QueryFolder, OutputFilename, psiblast, evalue)
       IN  /\ idx' = idx + 1
           /\ calls' = Append(calls, line \o <<".", "f", "a", "s", "t", "a">>)
           /\ IF b.err # "none"
              THEN /\ err' = b.err
                   /\ pc' = "error"
                   /\ UNCHANGED <<cmds, lines, uniprot_ids, lineNo>>
              ELSE /\ cmds' = Append(cmds, b.cmd)
                   /\ \E r \in BlastOutputs : lines' = SplitOn(r, NL)
                   /\ uniprot_ids' = IF \E i \in 1..Len(uniprot_ids) : uniprot_ids[i] = line
                                     THEN uniprot_ids ELSE Append(uniprot_ids, line)
                   /\ lineNo' = 1
                   /\ pc' = "parse"
                   /\ err' = err
    /\ UNCHANGED <<idfile, evalue, psiblast, blast_dict, stdout, out, out_closed,
                   png_saved, lower_than_threshold, seen, u_args, u_ret>>

BlastQuery ==
    /\ pc = "loop"
    /\ idx < Len(idfile)
    /\ LET line == clean_uniprot(idfile[idx + 1])
           b == blast(Db, line \o <<".", "f", "a", "s", "t", "a">>, QueryFolder, OutputFilename, psiblast, evalue)
       IN  /\ idx' = idx + 1
           /\ calls' = Append(calls, line \o <<".", "f", "a", "s", "t", "a">>)
           /\ IF b.err # "none"
              THEN /\ err' = b.err
                   /\ pc' = "error"
                   /\ UNCHANGED <<cmds, lines, uniprot_ids, lineNo>>
              ELSE /\ cmds' = Append(cmds, b.cmd)
                   /\ \E r \in BlastOutputs : lines' = SplitOn(r, NL)
                   /\ uniprot_ids' = Append(uniprot_ids, line)
                   /\ lineNo' = 1
                   /\ pc' = "parse"
                   /\ err' = err
    /\ UNCHANGED <<idfile, evalue, psiblast, blast_dict, stdout, out, out_closed,
                   png_saved, lower_than_threshold, seen, u_args, u_ret>>

\* One iteration of the for loop of parse_blast_result.
ParseLine ==
    /\ pc = "parse"
    /\ lineNo <= Len(lines)
    /\ LET line == lines[lineNo]
           p == parse_line(line, blast_dict)
       IN  /\ seen' = Append(seen, line)
           /\ blast_dict' = p.dict
           /\ stdout' = stdout \o p.print
           /\ err' = p.err
           /\ pc' = IF p.err = "none" THEN "parse" ELSE "error"
           /\ lineNo' = lineNo + 1
    /\ UNCHANGED <<idfile, evalue, psiblast, idx, uniprot_ids, lines, out,
                   out_closed, png_saved, lower_than_threshold, calls, cmds,
                   u_args, u_ret>>

\* parse_blast_result returns once the lines are exhausted, and main goes on
\* to the next line of the identifier file.
ParseReturn ==
    /\ pc = "parse"
    /\ lineNo > Len(lines)
    /\ pc' = "loop"
    /\ UNCHANGED <<idfile, evalue, psiblast, idx, uniprot_ids, blast_dict,
                   lines, lineNo, stdout, err, out, out_closed, png_saved,
                   lower_than_threshold, calls, cmds, seen, u_args, u_ret>>

\* After the loop: the identifier file is closed and write_output runs; its
\* with block closes the output file.
WriteOutput ==
    /\ pc = "loop"
    /\ idx = Len(idfile)
    /\ out' = write_output(uniprot_ids, blast_dict)
    /\ out_closed' = TRUE
    /\ pc' = "plot"
    /\ UNCHANGED <<idfile, evalue, psiblast, idx, uniprot_ids, blast_dict,
                   lines, lineNo, stdout, err, png_saved,
                   lower_than_threshold, calls, cmds, seen, u_args, u_ret>>

\* main's last statement: plot_evalue_distribution(blast_dict, output_png),
\* so the evalue parameter keeps its default.
PlotBeforeWrite ==
    /\ pc = "loop"
    /\ idx = Len(idfile)
    /\ LET r == plot_evalue_distribution(blast_dict, PlotDefaultEvalue)
       IN  /\ err' = r.err
           /\ png_saved' = r.saved
           /\ lower_than_threshold' = r.count
           /\ pc' = IF r.err = "none" THEN "done" ELSE "error"
    /\ UNCHANGED <<idfile, evalue, psiblast, idx, uniprot_ids, blast_dict,
                   lines, lineNo, stdout, out, out_closed, calls, cmds,
                   seen, u_args, u_ret>>

PlotEvalue ==
    /\ pc = "plot"
    /\ LET r == plot_evalue_distribution(blast_dict, PlotDefaultEvalue)
       IN  /\ err' = r.err
           /\ png_saved' = r.saved
           /\ lower_than_threshold' = r.count
           /\ pc' = IF r.err = "none" THEN "done" ELSE "error"
    /\ UNCHANGED <<idfile, evalue, psiblast, idx, uniprot_ids, blast_dict,
                   lines, lineNo, stdout, out, out_closed, calls, cmds,
                   seen, u_args, u_ret>>

Next == BlastQuery \/ ParseLine \/ ParseReturn \/ WriteOutput \/ PlotEvalue

Spec == Init /\ [][Next]_vars

-----------------------------------------------------------------------------
(* blast called directly *)

BlastQueries ==
    {<<"A", ".", "f", "a", "s", "t", "a">>, <<"A">>, <<"A", "\n">>, <<"A", " ", "\n">>, <<"A", " ", " ", "\n">>, <<"A", "\n", "\n">>, <<"A", "\n", " ">>,
     <<"A", " ", " ">>, <<" ", "A">>, <<>>}

BlastArgs ==
    [db : {<<"d", "b">>, <<"n", "r">>},
     query : BlastQueries,
     query_folder : {<<".", "/", "q", "u", "e", "r", "i", "e", "s", "/">>, <<"q", "/">>},
     blast_path : {<<>>},
     psiblast : BOOLEAN,
     evalue : {IntArg(EvalueDefault), StrArg(<<"1", "0">>), StrArg(<<"5">>)}]

InitBlast ==
    /\ pc = "unit"
    /\ idfile = <<>>
    /\ evalue = IntArg(EvalueDefault)
    /\ psiblast = FALSE
    /\ idx = 0
    /\ uniprot_ids = <<>>
    /\ blast_dict = EmptyDict
    /\ lines = <<>>
    /\ lineNo = 1
    /\ stdout = <<>>
    /\ err = "none"
    /\ out = <<>>
    /\ out_closed = FALSE
    /\ png_saved = FALSE
    /\ lower_than_threshold = 0
    /\ calls = <<>>
    /\ cmds = <<>>
    /\ seen = <<>>
    /\ u_args \in BlastArgs
    /\ u_ret = NoRet

CallBlast ==
    /\ pc = "unit"
    /\ u_ret = NoRet
    /\ u_ret' = blast(u_args.db, u_args.query, u_args.query_folder, u_args.blast_path,
                      u_args.psiblast, u_args.evalue)
    /\ UNCHANGED <<pc, idfile, evalue, psiblast, idx, uniprot_ids, blast_dict,
                   lines, lineNo, stdout, err, out, out_closed, png_saved,
                   lower_than_threshold, calls, cmds, seen, u_args>>

NextBlast == CallBlast

SpecBlast == InitBlast /\ [][NextBlast]_vars

-----------------------------------------------------------------------------
(* Vocabulary of the properties *)

\* The tab-separated columns of a row of the output file.
Columns(row) == SplitOn(IF EndsWith(row, <<NL>>) THEN DropLast(row) ELSE row, TAB)

StartsWith(s, pre) == Len(s) >= Len(pre) /\ SubSeq(s, 1, Len(pre)) = pre

\* Index pairs of the identifier list whose two identifiers differ.
DistinctPairs(ids) ==
    {p \in (1..Len(ids)) \X (1..Len(ids)) : ids[p[1]] # ids[p[2]]}

\* Position of index pair p among the pairs of S in row-major order.
Rank(p, S) ==
    1 + Cardinality({q \in S : q[1] < p[1] \/ (q[1] = p[1] /\ q[2] < p[2])})

\* The text between the first '|' of a field and its next '|' (or its end).
SecondBarField(f) ==
    LET i == FirstIndex(f, BAR)
        rest == SubSeq(f, i + 1, Len(f))
    IN  IF Contains(rest, BAR) THEN SubSeq(rest, 1, FirstIndex(rest, BAR) - 1) ELSE rest

Skipped(line) == line = <<>> \/ line[1] \in {"#", "["}

IsNumber(tok) == tok # <<>> /\ \A i \in 1..Len(tok) : tok[i] \in {Digits[d] : d \in 1..10}

\* Indexing fails: fewer than three fields, or no '|' in the first or second.
IndexFails(line) ==
    LET f == SplitWS(line)
    IN  \/ Len(f) < 3
        \/ ~Contains(f[1], BAR)
        \/ ~Contains(f[2], BAR)

WellFormed(line) ==
    /\ ~Skipped(line)
    /\ ~IndexFails(line)
    /\ IsNumber(SplitWS(line)[3])

KeyOf(line) == <<SecondBarField(SplitWS(line)[1]), SecondBarField(SplitWS(line)[2])>>

\* The parsed lines that are well formed, each as <<position in the history,
\* (query, subject), E-value>>.
Hits ==
    {<<i, KeyOf(seen[i]), DecVal(SplitWS(seen[i])[3])>> :
        i \in {j \in 1..Len(seen) : WellFormed(seen[j])}}

-----------------------------------------------------------------------------
(* Properties *)

\* C1 as stated: every ordered pair (a, b) of uniprot_ids x uniprot_ids has a
\* row in the written file whose first two columns are a and b.
C1_AllPairsWritten ==
    out_closed =>
        \A i, j \in 1..Len(uniprot_ids) :
            \E k \in 1..Len(out) :
                /\ Len(Columns(out[k])) >= 2
                /\ Columns(out[k])[1] = uniprot_ids[i]
                /\ Columns(out[k])[2] = uniprot_ids[j]

\* C1 amended: the written file holds exactly one row per ordered pair of list
\* positions whose identifiers differ, in row-major order; the row starts
\* with a, a tab, b, a tab, so that its first two columns are a and b.  A
\* pair of two equal identifiers has no row.
C1_DistinctPairsWritten ==
    out_closed =>
        LET S == DistinctPairs(uniprot_ids)
        IN  /\ Len(out) = Cardinality(S)
            /\ \A p \in S :
                   LET row == out[Rank(p, S)]
                       a == uniprot_ids[p[1]]
                       b == uniprot_ids[p[2]]
                   IN  /\ StartsWith(row, a \o <<TAB>> \o b \o <<TAB>>)
                       /\ Columns(row)[1] = a
                       /\ Columns(row)[2] = b
            /\ \A k \in 1..Len(out) : Columns(out[k])[1] # Columns(out[k])[2]

C1_Witness ==
    /\ out_closed
    /\ Len(uniprot_ids) = 2
    /\ uniprot_ids[1] # uniprot_ids[2]
    /\ Len(out) = 2

\* C2: blast_dict holds a key exactly when some parsed well-formed line had
\* it, and its value is the third column of the last such line over all the
\* results parsed so far; as the history only grows, no entry is removed.
C2_DictIsLastHit ==
    pc # "unit" =>
        LET hits == Hits
        IN  /\ DOMAIN blast_dict = {h[2] : h \in hits}
            /\ \A h \in hits :
                   (\A g \in hits : g[2] = h[2] => g[1] <= h[1])
                       => blast_dict[h[2]] = h[3]

C2_Witness ==
    /\ pc = "done"
    /\ \E g, h \in Hits :
           /\ g[1] < h[1]
           /\ g[2] = h[2]
           /\ g[3] # h[3]
           /\ blast_dict[h[2]] = h[3]
    /\ Cardinality(DOMAIN blast_dict) >= 2

\* C3: one blast call per consumed line, in file order; a call is only made
\* once the previous result has been parsed to its last line; uniprot_ids
\* holds the cleaned lines in file order, one per line.
C3_Sequential ==
    pc # "unit" =>
        /\ Len(calls) = idx
        /\ \A i \in 1..Len(calls) : calls[i] = clean_uniprot(idfile[i]) \o <<".", "f", "a", "s", "t", "a">>
        /\ Len(cmds) = Len(uniprot_ids)
        /\ Len(uniprot_ids) = IF err = "TypeError" THEN idx - 1 ELSE idx
        /\ \A i \in 1..Len(uniprot_ids) : uniprot_ids[i] = clean_uniprot(idfile[i])
        /\ (pc = "loop" /\ idx > 0) => lineNo = Len(lines) + 1
        /\ pc = "parse" => lineNo <= Len(lines) + 1
        /\ pc \in {"plot", "done"} \/ out_closed =>
               /\ idx = Len(idfile)
               /\ Len(uniprot_ids) = Len(idfile)

C3_Witness ==
    /\ pc = "done"
    /\ Len(uniprot_ids) = 2
    /\ uniprot_ids[1] = uniprot_ids[2]
    /\ Len(cmds) = 2

\* C4: a parsed line on which indexing fails leaves blast_dict alone, prints
\* the warning unless it ends with CONVERGED!, and the loop goes on to the
\* next line; a line with three fields and valid ids whose third field is no
\* number ends the run with ValueError; the parse returns only after the
\* last line.
C4_IndexErrorHandled ==
    [][(pc = "parse" /\ lineNo <= Len(lines)) =>
          LET line == lines[lineNo]
          IN  /\ (~Skipped(line) /\ IndexFails(line)) =>
                     /\ blast_dict' = blast_dict
                     /\ err' = "none"
                     /\ pc' = "parse"
                     /\ lineNo' = lineNo + 1
                     /\ stdout' = IF EndsWith(line, Converged)
                                  THEN stdout
                                  ELSE Append(stdout, WarnPrefix \o line)
              /\ (~Skipped(line) /\ ~IndexFails(line) /\ ~IsNumber(SplitWS(line)[3])) =>
                     /\ blast_dict' = blast_dict
                     /\ err' = "ValueError"
                     /\ pc' = "error"
              /\ pc' # "loop"]_vars

C4_Witness ==
    /\ pc = "error"
    /\ err = "ValueError"
    /\ Len(stdout) = 2
    /\ ~EndsWith(stdout[2], Converged)

\* C5 as stated: with the option omitted every blast call executes a command,
\* the one it would execute had -eval 10 been passed.
C5_DefaultEvalueRuns ==
    (pc # "unit" /\ ~evalue.isStr) =>
        /\ err # "TypeError"
        /\ Len(cmds) = Len(calls)
        /\ \A i \in 1..Len(cmds) :
               cmds[i] = blast(Db, calls[i], QueryFolder, OutputFilename, psiblast,
                               StrArg(DecStr(evalue.num))).cmd

\* C6 as stated: the count is the number of entries below the evalue the run
\* was given.
C6_ThresholdIsRunEvalue ==
    (pc = "done" /\ evalue.isStr) =>
        lower_than_threshold =
            Cardinality({k \in DOMAIN blast_dict : blast_dict[k] < DecVal(evalue.str)})

\* C7: the command blast executes is the blastp command, or with the flag the
\* psiblast command with 3 iterations and composition-based statistics off;
\* its query path is query_folder followed by the query less at most one
\* trailing newline and then at most one trailing space; it names db and the
\* tabular format.
C7_BlastCommand ==
    (pc = "unit" /\ u_ret.err = "none") =>
        LET q == u_args.query
        IN  \E t \in {<<>>, <<NL>>, <<SP>>, <<SP, NL>>} :
                /\ EndsWith(q, t)
                /\ (NL \notin {t[i] : i \in 1..Len(t)}) => ~EndsWith(q, <<NL>>)
                /\ (SP \notin {t[i] : i \in 1..Len(t)}) =>
                       ~EndsWith(SubSeq(q, 1, Len(q) - Len(t)), <<SP>>)
                /\ u_ret.cmd =
                       (IF u_args.psiblast THEN <<"p", "s", "i", "b", "l", "a", "s", "t">> ELSE <<"b", "l", "a", "s", "t", "p">>)
                       \o <<" ", "-", "q", "u", "e", "r", "y", "=">> \o u_args.query_folder
                       \o SubSeq(q, 1, Len(q) - Len(t))
                       \o <<" ", "-", "d", "b", "=">> \o u_args.db
                       \o (IF u_args.psiblast THEN <<" ", "-", "n", "u", "m", "_", "i", "t", "e", "r", "a", "t", "i", "o", "n", "s", "=", "3">> ELSE <<>>)
                       \o <<" ", "-", "o", "u", "t", "f", "m", "t", "=", "\"", "6", " ", "q", "a", "c", "c", " ", "s", "a", "c", "c", " ", "e", "v", "a", "l", "u", "e", "\"">>
                       \o <<" ", "-", "e", "v", "a", "l", "u", "e", "=">> \o u_args.evalue.str
                       \o (IF u_args.psiblast THEN <<" ", "-", "c", "o", "m", "p", "_", "b", "a", "s", "e", "d", "_", "s", "t", "a", "t", "s", "=", "0">> ELSE <<>>)

C7_Witness ==
    /\ pc = "unit"
    /\ u_ret.err = "none"
    /\ u_args.psiblast
    /\ u_args.query = <<"A", " ", " ", "\n">>
    /\ Contains(u_ret.cmd, "3")

\* C8: write_output leaves blast_dict alone, and every row it writes is for
\* two listed identifiers a and b and carries str(blast_dict[(a, b)]) when
\* that key is present and NA otherwise; so an entry with an unlisted
\* identifier in its key has no row.
C8_RowValues ==
    [][(pc = "loop" /\ pc' = "plot") =>
          /\ blast_dict' = blast_dict
          /\ \A k \in 1..Len(out') :
                 LET c == Columns(out'[k])
                 IN  /\ Len(c) = 3
                     /\ \E i, j \in 1..Len(uniprot_ids) :
                            c[1] = uniprot_ids[i] /\ c[2] = uniprot_ids[j]
                     /\ c[3] = IF <<c[1], c[2]>> \in DOMAIN blast_dict
                               THEN Str(blast_dict[<<c[1], c[2]>>])
                               ELSE <<"N", "A">>]_vars

C8_Witness ==
    /\ out_closed
    /\ \E k \in 1..Len(out) : Columns(out[k])[3] = <<"5", ".", "0">>
    /\ \E k \in 1..Len(out) : Columns(out[k])[3] = <<"N", "A">>
    /\ \E key \in DOMAIN blast_dict :
           \A i \in 1..Len(uniprot_ids) : uniprot_ids[i] # key[2]

\* C9: the plot starts only after every query has been invoked and parsed and
\* the complete matrix file has been written and closed; the run ends in the
\* IndexError of the pseudocount exactly when no E-value is non-zero, with
\* the matrix file complete.
C9_PipelineOrder ==
    pc # "unit" =>
        /\ (pc = "plot" \/ png_saved \/ err = "IndexError" \/ pc = "done") =>
               /\ out_closed
               /\ idx = Len(idfile)
               /\ Len(cmds) = Len(idfile)
               /\ lineNo = Len(lines) + 1 \/ idfile = <<>>
               /\ Len(out) = Cardinality(DistinctPairs(uniprot_ids))
        /\ out_closed => pc \in {"plot", "done", "error"}
        /\ pc = "plot" => ~png_saved
        /\ (pc = "error" /\ out_closed) =>
               /\ err = "IndexError"
               /\ ~png_saved
               /\ \A k \in DOMAIN blast_dict : blast_dict[k] = 0
        /\ pc = "done" =>
               /\ png_saved
               /\ \E k \in DOMAIN blast_dict : blast_dict[k] # 0

C9_Witness ==
    /\ pc = "error"
    /\ err = "IndexError"
    /\ out_closed
    /\ Len(out) = 2
    /\ blast_dict # EmptyDict

\* C10 as stated: an identifier in uniprot_ids ends with neither a space nor
\* a newline, and cleaning it again changes nothing.
C10_CleanedIds ==
    \A i \in 1..Len(uniprot_ids) :
        /\ ~EndsWith(uniprot_ids[i], <<SP>>)
        /\ ~EndsWith(uniprot_ids[i], <<NL>>)
        /\ clean_uniprot(uniprot_ids[i]) = uniprot_ids[i]

====
